---- MODULE Spec2Model ----
(***************************************************************************)
(* BLE scanner with a hash buffer (src/main.c).                            *)
(*                                                                         *)
(* Two execution contexts share hash_table, buffer_header, hash_entries    *)
(* and buffer_active without any lock:                                     *)
(*   - the capture context, which runs scan_cb for every advertisement;    *)
(*   - the system work queue, which runs sampling_timer_handler on every   *)
(*     expiry of the sampling timer.                                       *)
(* Each context is a process with a program counter; a step of the model   *)
(* is a short run of statements of one of the two, cut where the other     *)
(* context can see or change what the run is working on.                   *)
(***************************************************************************)
EXTENDS Integers, Sequences, FiniteSets, TLC

\* ------------------------------------------------------------------------
\* Bounds of the model
\* ------------------------------------------------------------------------

\* log2 of the table size: the table has 2^HashBits slots (1024 in main.c).
HashBits == 1

\* scan_cb invocations in one run.
MaxEvents == 3

\* Expiries of the sampling timer in one run.
MaxTicks == 1

\* Reports of one device in the single window of SpecBurst.
MaxBurst == 256

\* Expiries of the sampling timer in one run of SpecSeq: enough frames for
\* the uint8_t sequence to pass 255.
MaxFrames == 258

\* scan_cb invocations in one run of SpecSeq.
SeqEvents == 1

\* scan_cb invocations in one run of SpecFair.
FairEvents == 1

\* ------------------------------------------------------------------------
\* Program constants
\* ------------------------------------------------------------------------

UART_HEADER_MAGIC == 85

UART_HEADER_LENGTH == 4

\* Both are 1024 in main.c: the table is scaled down, still a power of two
\* and still as large as MAX_DEVICES.
HASH_SIZE == 2 ^ HashBits

MAX_DEVICES == 2 ^ HashBits

\* x & HASH_MASK, HASH_SIZE being a power of two.
AndHashMask(x) == x % HASH_SIZE

ENTRY_EMPTY == 0

ENTRY_OCCUPIED == 1

ENTRY_DELETED == 2

\* sizeof(device->data)
DATA_SIZE == 31

\* sizeof(struct buffer_header), sizeof(struct device_data): both __packed.
HEADER_BYTES == UART_HEADER_LENGTH + 1 + 2 + 2

DEVICE_BYTES == 6 + 1 + 1 + 1 + 1 + DATA_SIZE + 1

Two8 == 256

Two16 == 65536

Slots == 0 .. (HASH_SIZE - 1)

\* ------------------------------------------------------------------------
\* Inputs: the advertisements the controller may report
\* ------------------------------------------------------------------------

\* HASH_SIZE + 1 distinct addresses; some share a home slot, some do not.
MacOf(k) == <<170, 187, 204, 0, k \div 2, k>>

MACS == { MacOf(k) : k \in 0 .. HASH_SIZE }

\* A 32-byte payload, one byte longer than device->data.
LongData == [i \in 1 .. (DATA_SIZE + 1) |-> 200 + (i % 50)]

\* (addr->type, adv_type, rssi, buf) of a report.
OBS ==
  { [type |-> 0, adv_type |-> 0, rssi |-> -60, buf |-> <<2, 1, 6>>],
    [type |-> 1, adv_type |-> 3, rssi |-> 20, buf |-> LongData] }

BurstObs == [type |-> 0, adv_type |-> 0, rssi |-> -60, buf |-> <<2, 1, 6>>]

NoObs == [type |-> 0, adv_type |-> 0, rssi |-> 0, buf |-> <<>>]

NoMac == <<0, 0, 0, 0, 0, 0>>

\* ------------------------------------------------------------------------
\* hash_mac, on 32-bit unsigned arithmetic kept as two 16-bit halves
\* ------------------------------------------------------------------------

\* hash << 4
Shl4(h) ==
  [hi |-> (h.hi * 16 + (h.lo * 16) \div Two16) % Two16,
   lo |-> (h.lo * 16) % Two16]

\* hash << 5
Shl5(h) ==
  [hi |-> (h.hi * 32 + (h.lo * 32) \div Two16) % Two16,
   lo |-> (h.lo * 32) % Two16]

\* a + b on uint32_t
Add32(a, b) ==
  [hi |-> (a.hi + b.hi + (a.lo + b.lo) \div Two16) % Two16,
   lo |-> (a.lo + b.lo) % Two16]

U32(n) == [hi |-> n \div Two16, lo |-> n % Two16]

RECURSIVE HashLoop(_, _, _)
HashLoop(mac, i, hash) ==
  IF i > 6 THEN hash
  ELSE HashLoop(mac, i + 1, Add32(Add32(Shl5(hash), hash), U32(mac[i])))

hash_mac(mac) == AndHashMask(HashLoop(mac, 1, U32(0)).lo)

\* ------------------------------------------------------------------------
\* State
\* ------------------------------------------------------------------------

VARIABLES
  hash_table,      \* slot -> [state, device]
  buffer_header,   \* [header, sequence, n_adv_raw, n_mac]
  buffer_active,
  msg_sequence,
  hash_entries,
  uart,            \* bytes given to uart_poll_out by the handler now running
  work_pc,         \* position of sampling_timer_handler
  send_i,          \* loop index i of send_buffer
  cb_pc,           \* position of scan_cb
  cb_addr,         \* addr->a.val of the report in progress
  cb_obs,          \* the other arguments of the report in progress
  index,           \* find_or_add_device: index
  original_index,  \* find_or_add_device: original_index
  device,          \* scan_cb: the slot device points into
  cb_last,         \* how the last finished scan_cb ended
  n_events,        \* scan_cb invocations so far
  n_ticks,         \* timer expiries so far
  win_events,      \* reports that passed the buffer_active test in this window
  win_seen,        \* address -> such reports of that address in this window
  win_latest       \* address -> the arguments of the latest of them

vars ==
  <<hash_table, buffer_header, buffer_active, msg_sequence, hash_entries, uart,
    work_pc, send_i, cb_pc, cb_addr, cb_obs, index, original_index, device,
    cb_last, n_events, n_ticks, win_events, win_seen, win_latest>>

cbVars == <<cb_pc, cb_addr, cb_obs, index, original_index, device, cb_last>>

workVars == <<work_pc, send_i>>

sharedVars == <<hash_table, buffer_header, buffer_active, msg_sequence, hash_entries>>

ghostVars == <<win_events, win_seen, win_latest>>

ZeroData == [i \in 1 .. DATA_SIZE |-> 0]

ZeroDevice ==
  [addr |-> NoMac, addr_type |-> 0, adv_type |-> 0, rssi |-> 0,
   data_len |-> 0, data |-> ZeroData, n_adv |-> 0]

ZeroEntry == [state |-> ENTRY_EMPTY, device |-> ZeroDevice]

ZeroHeader == [header |-> <<0, 0, 0, 0>>, sequence |-> 0, n_adv_raw |-> 0, n_mac |-> 0]

Min(a, b) == IF a < b THEN a ELSE b

NumOccupied == Cardinality({s \in Slots : hash_table[s].state = ENTRY_OCCUPIED})

\* ------------------------------------------------------------------------
\* Wire format: the bytes of the packed structs, little-endian host
\* ------------------------------------------------------------------------

Lo8(n) == n % Two8

Hi8(n) == (n \div Two8) % Two8

\* int8_t as the byte that stores it
S8Byte(v) == (v + Two8) % Two8

HeaderBytes(h) ==
  h.header \o <<h.sequence, Lo8(h.n_adv_raw), Hi8(h.n_adv_raw), Lo8(h.n_mac), Hi8(h.n_mac)>>

\* struct device_data with adv_type laid out before addr_type
DeviceBytesSwapped(d) ==
  d.addr \o <<d.adv_type, d.addr_type, S8Byte(d.rssi), d.data_len>> \o d.data \o <<d.n_adv>>

DeviceBytes(d) ==
  d.addr \o <<d.addr_type, d.adv_type, S8Byte(d.rssi), d.data_len>> \o d.data \o <<d.n_adv>>

\* ------------------------------------------------------------------------
\* Init: main() has run reset_buffer(), set buffer_active and started the
\* timer and the scan.
\* ------------------------------------------------------------------------

Init ==
  /\ hash_table = [s \in Slots |-> ZeroEntry]
  /\ buffer_header =
       [header |-> <<UART_HEADER_MAGIC, UART_HEADER_MAGIC, UART_HEADER_MAGIC, UART_HEADER_MAGIC>>,
        sequence |-> 0, n_adv_raw |-> 0, n_mac |-> 0]
  /\ buffer_active = TRUE
  /\ msg_sequence = 1
  /\ hash_entries = 0
  /\ uart = <<>>
  /\ work_pc = "idle"
  /\ send_i = 0
  /\ cb_pc = "idle"
  /\ cb_addr = NoMac
  /\ cb_obs = NoObs
  /\ index = 0
  /\ original_index = 0
  /\ device = 0
  /\ cb_last = "none"
  /\ n_events = 0
  /\ n_ticks = 0
  /\ win_events = 0
  /\ win_seen = [m \in MACS |-> 0]
  /\ win_latest = [m \in MACS |-> NoObs]

\* ------------------------------------------------------------------------
\* find_or_add_device, one loop iteration per step
\* ------------------------------------------------------------------------

\* The comparison with the test of memcmp's result inverted.
SlotMatchesInverted(e, addr) == e.state = ENTRY_OCCUPIED /\ e.device.addr # addr

\* hash_table[index].state == ENTRY_OCCUPIED && memcmp(device.addr, addr, 6) == 0
SlotMatches(e, addr) == e.state = ENTRY_OCCUPIED /\ e.device.addr = addr

\* The test of the slot's state lost: every slot passes for free.
SlotFreeAlways(e) == e.state = e.state

\* hash_table[index].state != ENTRY_OCCUPIED
SlotFree(e) == e.state # ENTRY_OCCUPIED

\* the two tests tripping one record early
LimitReachedEarly(n_mac, entries) == n_mac + 1 >= MAX_DEVICES \/ entries + 1 >= MAX_DEVICES

\* the two "Buffer lleno" tests
LimitReached(n_mac, entries) == n_mac >= MAX_DEVICES \/ entries >= MAX_DEVICES

\* the probe advancing by two slots
NextIndexSkip(i) == AndHashMask(i + 2)

\* index = (index + 1) & HASH_MASK
NextIndex(i) == AndHashMask(i + 1)

\* state = ENTRY_OCCUPIED; memcpy(addr); n_adv = 0
ClaimSlot(e, addr) ==
  [e EXCEPT !.state = ENTRY_OCCUPIED, !.device.addr = addr, !.device.n_adv = 0]

\* scan_cb returns: its locals are dead.
CbReturn(how) ==
  /\ cb_pc' = "idle"
  /\ cb_addr' = NoMac
  /\ cb_obs' = NoObs
  /\ index' = 0
  /\ original_index' = 0
  /\ device' = 0
  /\ cb_last' = how

\* The test of buffer_active with its negation lost.
WindowClosedInverted(active) == active

\* !buffer_active
WindowClosed(active) == ~active

\* The controller reports an advertisement (at most limit of them in a run):
\* scan_cb starts.  if (!buffer_active) return;
Deliver(mac, obs, limit) ==
  /\ cb_pc = "idle"
  /\ n_events < limit
  /\ n_events' = n_events + 1
  /\ IF WindowClosed(buffer_active)
       THEN /\ cb_last' = "inactive"
            /\ UNCHANGED <<cb_pc, cb_addr, cb_obs, index, original_index, device, ghostVars>>
       ELSE /\ cb_pc' = "count"
            /\ cb_addr' = mac
            /\ cb_obs' = obs
            /\ win_events' = win_events + 1
            /\ win_seen' = [win_seen EXCEPT ![mac] = @ + 1]
            /\ win_latest' = [win_latest EXCEPT ![mac] = obs]
            /\ UNCHANGED <<index, original_index, device, cb_last>>
  /\ UNCHANGED <<sharedVars, uart, workVars, n_ticks>>

\* buffer_header.n_adv_raw++; then the first two lines of find_or_add_device
ScanCbCount ==
  /\ cb_pc = "count"
  /\ buffer_header' = [buffer_header EXCEPT !.n_adv_raw = (@ + 1) % Two16]
  /\ index' = hash_mac(cb_addr)
  /\ original_index' = hash_mac(cb_addr)
  /\ cb_pc' = "probe"
  /\ UNCHANGED <<hash_table, buffer_active, msg_sequence, hash_entries, uart, workVars,
                 cb_addr, cb_obs, device, cb_last, n_events, n_ticks, ghostVars>>

\* one iteration of the do-while
FindProbe ==
  /\ cb_pc = "probe"
  /\ IF SlotMatches(hash_table[index], cb_addr)
       THEN /\ device' = index
            /\ cb_pc' = "fields"
            /\ UNCHANGED <<hash_table, cb_addr, cb_obs, index, original_index, cb_last>>
       ELSE IF SlotFree(hash_table[index])
         THEN IF LimitReached(buffer_header.n_mac, hash_entries)
                THEN /\ CbReturn("full")
                     /\ UNCHANGED hash_table
                ELSE /\ hash_table' = [hash_table EXCEPT ![index] = ClaimSlot(@, cb_addr)]
                     /\ cb_pc' = "insert"
                     /\ UNCHANGED <<cb_addr, cb_obs, index, original_index, device, cb_last>>
         ELSE IF NextIndex(index) # original_index
                THEN /\ index' = NextIndex(index)
                     /\ UNCHANGED <<hash_table, cb_pc, cb_addr, cb_obs, original_index,
                                    device, cb_last>>
                ELSE /\ CbReturn("full")
                     /\ UNCHANGED hash_table
  /\ UNCHANGED <<buffer_header, buffer_active, msg_sequence, hash_entries, uart, workVars,
                 n_events, n_ticks, ghostVars>>

\* hash_entries++; buffer_header.n_mac++; return &hash_table[index].device;
FindInsertCount ==
  /\ cb_pc = "insert"
  /\ hash_entries' = (hash_entries + 1) % Two16
  /\ buffer_header' = [buffer_header EXCEPT !.n_mac = (@ + 1) % Two16]
  /\ device' = index
  /\ cb_pc' = "fields"
  /\ UNCHANGED <<hash_table, buffer_active, msg_sequence, uart, workVars,
                 cb_addr, cb_obs, index, original_index, cb_last, n_events, n_ticks,
                 ghostVars>>

\* MIN(buf->len, sizeof(device->data))
ClampLen(len) == Min(len, DATA_SIZE)

\* addr_type, adv_type, rssi, data_len of *device
SetFields(d, obs) ==
  [d EXCEPT !.addr_type = obs.type, !.adv_type = obs.adv_type, !.rssi = obs.rssi,
            !.data_len = ClampLen(Len(obs.buf))]

ScanCbFields ==
  /\ cb_pc = "fields"
  /\ hash_table' = [hash_table EXCEPT ![device].device = SetFields(@, cb_obs)]
  /\ cb_pc' = "data"
  /\ UNCHANGED <<buffer_header, buffer_active, msg_sequence, hash_entries, uart, workVars,
                 cb_addr, cb_obs, index, original_index, device, cb_last, n_events,
                 n_ticks, ghostVars>>

\* memset(device->data, 0, 31); memcpy(device->data, buf->data, device->data_len)
FillData(d, buf) == [i \in 1 .. DATA_SIZE |-> IF i <= d.data_len THEN buf[i] ELSE 0]

\* device->n_adv++ on uint8_t
BumpNAdv(n) == (n + 1) % Two8

\* the last three statements of scan_cb
MergeData(d, buf) == [d EXCEPT !.data = FillData(d, buf), !.n_adv = BumpNAdv(d.n_adv)]

ScanCbData ==
  /\ cb_pc = "data"
  /\ hash_table' = [hash_table EXCEPT ![device].device = MergeData(@, cb_obs.buf)]
  /\ CbReturn("merged")
  /\ UNCHANGED <<buffer_header, buffer_active, msg_sequence, hash_entries, uart, workVars,
                 n_events, n_ticks, ghostVars>>

ScanCbEnter == \E mac \in MACS, obs \in OBS : Deliver(mac, obs, MaxEvents)

CbStep ==
  \/ ScanCbEnter
  \/ ScanCbCount
  \/ FindProbe
  \/ FindInsertCount
  \/ ScanCbFields
  \/ ScanCbData

\* ------------------------------------------------------------------------
\* sampling_timer_handler
\* ------------------------------------------------------------------------

\* The work item starting without line 166.
ExpireKeepsFlag(limit) ==
  /\ work_pc = "idle"
  /\ n_ticks < limit
  /\ n_ticks' = n_ticks + 1
  /\ work_pc' = "send_hdr"
  /\ UNCHANGED <<sharedVars, uart, send_i, cbVars, n_events, ghostVars>>

\* The timer expires (at most limit times in a run) and the work item
\* starts: buffer_active = false;
Expire(limit) ==
  /\ work_pc = "idle"
  /\ n_ticks < limit
  /\ n_ticks' = n_ticks + 1
  /\ buffer_active' = FALSE
  /\ work_pc' = "send_hdr"
  /\ UNCHANGED <<hash_table, buffer_header, msg_sequence, hash_entries, uart, send_i,
                 cbVars, n_events, ghostVars>>

\* send_buffer: the header loop
SendHeader ==
  /\ work_pc = "send_hdr"
  /\ uart' = HeaderBytes(buffer_header)
  /\ send_i' = 0
  /\ work_pc' = "send_rec"
  /\ UNCHANGED <<sharedVars, cbVars, n_events, n_ticks, ghostVars>>

\* the bytes the loop body sends for one slot
EntryBytes(e) == IF e.state = ENTRY_OCCUPIED THEN DeviceBytes(e.device) ELSE <<>>

\* send_buffer: one iteration of the loop over hash_table
SendEntry ==
  /\ work_pc = "send_rec"
  /\ uart' = uart \o EntryBytes(hash_table[send_i])
  /\ send_i' = IF send_i + 1 < HASH_SIZE THEN send_i + 1 ELSE 0
  /\ work_pc' = IF send_i + 1 < HASH_SIZE THEN "send_rec" ELSE "reset"
  /\ UNCHANGED <<sharedVars, cbVars, n_events, n_ticks, ghostVars>>

\* msg_sequence++ without the wrap of uint8_t
NextSequenceNoWrap(s) == s + 1

\* msg_sequence++ on uint8_t
NextSequence(s) == (s + 1) % Two8

\* reset_buffer()
ResetBuffer ==
  /\ work_pc = "reset"
  /\ hash_table' = [s \in Slots |-> ZeroEntry]
  /\ buffer_header' =
       [header |-> [i \in 1 .. UART_HEADER_LENGTH |-> UART_HEADER_MAGIC],
        sequence |-> msg_sequence, n_adv_raw |-> 0, n_mac |-> 0]
  /\ msg_sequence' = NextSequence(msg_sequence)
  /\ hash_entries' = 0
  /\ work_pc' = "activate"
  /\ UNCHANGED <<buffer_active, uart, send_i, cbVars, n_events, n_ticks, ghostVars>>

\* The handler returning without line 169.
ActivateKeepsFlag ==
  /\ work_pc = "activate"
  /\ work_pc' = "idle"
  /\ uart' = <<>>
  /\ UNCHANGED <<sharedVars, send_i, cbVars, n_events, n_ticks, ghostVars>>

\* buffer_active = true; the handler returns and a new window begins: the
\* frame has left (uart is emptied) and the history of the window starts
\* afresh.
Activate ==
  /\ work_pc = "activate"
  /\ buffer_active' = TRUE
  /\ work_pc' = "idle"
  /\ win_events' = 0
  /\ win_seen' = [m \in MACS |-> 0]
  /\ win_latest' = [m \in MACS |-> NoObs]
  /\ uart' = <<>>
  /\ UNCHANGED <<hash_table, buffer_header, msg_sequence, hash_entries, send_i,
                 cbVars, n_events, n_ticks>>

TimerExpiry == Expire(MaxTicks)

WorkStep ==
  \/ TimerExpiry
  \/ SendHeader
  \/ SendEntry
  \/ ResetBuffer
  \/ Activate

\* ------------------------------------------------------------------------
\* Specifications
\* ------------------------------------------------------------------------

\* The two contexts preempt each other at any step: nothing in main.c
\* prevents it.
Next == CbStep \/ WorkStep

Spec == Init /\ [][Next]_vars

\* The schedule in which a callback that has passed the buffer_active test
\* runs to its end before the work item starts.
NextAtomic == CbStep \/ (cb_pc = "idle" /\ WorkStep)

SpecAtomic == Init /\ [][NextAtomic]_vars

\* One window in which a single device advertises MaxBurst times with the
\* same report and the timer does not expire: long enough for the uint8_t
\* n_adv of its record to wrap.
BurstEnter == Deliver(MacOf(0), BurstObs, MaxBurst)

NextBurst ==
  \/ BurstEnter
  \/ ScanCbCount
  \/ FindProbe
  \/ FindInsertCount
  \/ ScanCbFields
  \/ ScanCbData

SpecBurst == Init /\ [][NextBurst]_vars

\* Many windows in a row, a report of one device arriving at any point of
\* any of them:
\* long enough for msg_sequence to wrap.
SeqEnter == Deliver(MacOf(0), BurstObs, SeqEvents)

SeqExpiry == Expire(MaxFrames)

NextSeq ==
  \/ SeqEnter
  \/ ScanCbCount
  \/ FindProbe
  \/ FindInsertCount
  \/ ScanCbFields
  \/ ScanCbData
  \/ SeqExpiry
  \/ SendHeader
  \/ SendEntry
  \/ ResetBuffer
  \/ Activate

SpecSeq == Init /\ [][NextSeq]_vars

\* hash_mac on its own: scan_cb has been called once, with any address
\* made of these bytes, and goes as far as the call of hash_mac.
HashBytes == {0, 1, 170, 255}

HashInputs == [1 .. 6 -> HashBytes]

InitHash ==
  /\ hash_table = [s \in Slots |-> ZeroEntry]
  /\ buffer_header =
       [header |-> [i \in 1 .. UART_HEADER_LENGTH |-> UART_HEADER_MAGIC],
        sequence |-> 0, n_adv_raw |-> 0, n_mac |-> 0]
  /\ buffer_active = TRUE
  /\ msg_sequence = 1
  /\ hash_entries = 0
  /\ uart = <<>>
  /\ work_pc = "idle"
  /\ send_i = 0
  /\ cb_pc = "count"
  /\ cb_addr \in HashInputs
  /\ cb_obs = BurstObs
  /\ index = 0
  /\ original_index = 0
  /\ device = 0
  /\ cb_last = "none"
  /\ n_events = 1
  /\ n_ticks = 0
  /\ win_events = 1
  /\ win_seen = [m \in MACS |-> 0]
  /\ win_latest = [m \in MACS |-> NoObs]

NextHash == ScanCbCount

SpecHash == InitHash /\ [][NextHash]_vars

\* The periodic timer for the lifetime of the process: an expiry that is
\* not counted, so that the run never ends.
Tick ==
  /\ work_pc = "idle"
  /\ buffer_active' = FALSE
  /\ work_pc' = "send_hdr"
  /\ UNCHANGED <<hash_table, buffer_header, msg_sequence, hash_entries, uart, send_i,
                 cbVars, n_events, n_ticks, ghostVars>>

\* the steps of the handler once it has started
FairDrain == SendHeader \/ SendEntry \/ ResetBuffer \/ Activate

FairEnter == Deliver(MacOf(0), BurstObs, FairEvents)

NextFair ==
  \/ FairEnter
  \/ ScanCbCount
  \/ FindProbe
  \/ FindInsertCount
  \/ ScanCbFields
  \/ ScanCbData
  \/ Tick
  \/ FairDrain

\* The timer keeps expiring and the work queue keeps running the handler,
\* uart_poll_out returning every time; nothing is assumed of scan_cb.
SpecFair == Init /\ [][NextFair]_vars /\ WF_vars(Tick) /\ WF_vars(FairDrain)

\* ------------------------------------------------------------------------
\* Reading a frame back from the bytes on the wire
\* ------------------------------------------------------------------------

HeaderSent == Len(uart) >= HEADER_BYTES

\* n_adv_raw and n_mac as the receiver reads them from the header
FrameRaw == uart[6] + Two8 * uart[7]

FrameNMac == uart[8] + Two8 * uart[9]

\* the 42-byte records that follow the header
FrameRecords == (Len(uart) - HEADER_BYTES) \div DEVICE_BYTES

FrameRecord(k) ==
  SubSeq(uart, HEADER_BYTES + (k - 1) * DEVICE_BYTES + 1, HEADER_BYTES + k * DEVICE_BYTES)

\* send_buffer has returned and the handler has not yet finished
FrameComplete == work_pc \in {"reset", "activate"}

\* slot s holds a record of address mac
Holds(s, mac) ==
  hash_table[s].state = ENTRY_OCCUPIED /\ hash_table[s].device.addr = mac

\* this step is one of scan_cb
CaptureStep == <<cbVars, n_events>>' # <<cbVars, n_events>>

\* the first 31 bytes of a report, zero-padded, as a record should keep them
Padded(buf) ==
  [i \in 1 .. DATA_SIZE |-> IF i <= Len(buf) /\ i <= DATA_SIZE THEN buf[i] ELSE 0]

\* ------------------------------------------------------------------------
\* Claims
\* ------------------------------------------------------------------------

\* C1: in every frame a drain emits, whatever the interleaving of scan_cb
\* with the drain, the number of 42-byte records after the header equals
\* the n_mac written in that frame's header.
C1_RecordsMatchHeader == FrameComplete => FrameRecords = FrameNMac

\* C2: from buffer_active = false until buffer_active = true no step of
\* scan_cb changes a table slot or a header counter, and reset_buffer never
\* runs while scan_cb is inside find_or_add_device or its record update.
C2_TableReadOnlyWhileDraining ==
  [][ /\ (work_pc # "idle" /\ CaptureStep) =>
           (hash_table' = hash_table /\ buffer_header' = buffer_header
            /\ hash_entries' = hash_entries)
      /\ (work_pc = "reset" /\ work_pc' # "reset") => cb_pc = "idle" ]_vars

\* C3: no two slots tagged ENTRY_OCCUPIED hold the same 6-byte address.
C3_OneSlotPerAddress ==
  \A s, t \in Slots :
    (s # t /\ hash_table[s].state = ENTRY_OCCUPIED /\ hash_table[t].state = ENTRY_OCCUPIED)
      => hash_table[s].device.addr # hash_table[t].device.addr

\* C4: the number of ENTRY_OCCUPIED slots never exceeds the capacity, and
\* when the drain writes the header its n_mac equals the number of
\* ENTRY_OCCUPIED slots.
C4_UniqueCountIsOccupancy ==
  /\ NumOccupied <= MAX_DEVICES
  /\ NumOccupied <= HASH_SIZE
  /\ work_pc = "send_hdr" => buffer_header.n_mac = NumOccupied

\* C5: the n_adv_raw of an emitted header equals the number of reports
\* delivered while buffer_active was true in that window.
C5_RawCountsEveryEvent == HeaderSent => FrameRaw = win_events

\* C6: within a window, an address reported N >= 1 times (the table not
\* being full of other addresses) has exactly one record, whose n_adv is N
\* and whose other fields are those of the latest report.
C6_CountAndLatest ==
  \A m \in MACS :
    ( /\ buffer_active
      /\ cb_pc = "idle"
      /\ win_seen[m] >= 1
      /\ (NumOccupied < HASH_SIZE \/ \E s \in Slots : Holds(s, m)) )
    => /\ Cardinality({s \in Slots : Holds(s, m)}) = 1
       /\ \A s \in Slots :
            Holds(s, m) =>
              /\ hash_table[s].device.n_adv = win_seen[m]
              /\ hash_table[s].device.addr_type = win_latest[m].type
              /\ hash_table[s].device.adv_type = win_latest[m].adv_type
              /\ hash_table[s].device.rssi = win_latest[m].rssi
              /\ hash_table[s].device.data_len = Min(Len(win_latest[m].buf), DATA_SIZE)
              /\ hash_table[s].device.data = Padded(win_latest[m].buf)

\* C7: every payload byte at index >= data_len is 0, in every occupied
\* record that scan_cb is not in the middle of rewriting and in every
\* record put on the wire.
C7_ZeroFill ==
  /\ \A s \in Slots :
       (hash_table[s].state = ENTRY_OCCUPIED /\ ~(cb_pc = "data" /\ device = s))
         => \A i \in 1 .. DATA_SIZE :
              i > hash_table[s].device.data_len => hash_table[s].device.data[i] = 0
  /\ HeaderSent =>
       \A k \in 1 .. FrameRecords :
         \A i \in 1 .. DATA_SIZE :
           i > FrameRecord(k)[10] => FrameRecord(k)[10 + i] = 0

\* find_or_add_device returns a record / returns NULL in this step
FindReturnsRecord == cb_pc = "probe" /\ cb_pc' \in {"insert", "fields"}

FindReturnsNull == cb_pc = "probe" /\ cb_pc' = "idle"

\* every slot is occupied by an address other than mac
FullOfOthers(mac) ==
  \A s \in Slots : hash_table[s].state = ENTRY_OCCUPIED /\ hash_table[s].device.addr # mac

\* C8: once capacity distinct addresses are recorded, find_or_add_device
\* returns NULL for any further address; and it returns NULL only then, so
\* the first capacity distinct addresses of a window are all inserted.
C8_FullOnlyAtCapacity ==
  [][ /\ FindReturnsRecord => ~FullOfOthers(cb_addr)
      /\ FindReturnsNull => FullOfOthers(cb_addr) ]_vars

C10_InactiveDropsEvent ==
  [][ (CaptureStep /\ cb_pc = "idle" /\ ~buffer_active) =>
        /\ UNCHANGED <<hash_table, buffer_header, hash_entries, msg_sequence,
                       buffer_active, uart, workVars>>
        /\ UNCHANGED <<cb_pc, cb_addr, cb_obs, index, original_index, device>>
        /\ UNCHANGED ghostVars ]_vars

\* A report arrived during the drain and was dropped.
C10_Witness ==
  /\ cb_last = "inactive"
  /\ ~buffer_active
  /\ work_pc \in {"send_rec", "reset", "activate"}

\* the sequence byte of the frame on the wire
FrameSequence == uart[5]

\* C11: the k-th frame emitted since start-up (k = 1, 2, ...) carries the
\* sequence (s0 + k - 1) mod 256, s0 = 0 being the sequence main() assigned
\* to the first window: one more per window, 0 after 255, none repeated and
\* none skipped.
C11_SequencePerFrame == HeaderSent => FrameSequence = (n_ticks - 1) % Two8

\* The frame after the one numbered 255 is on the wire, numbered 0.
C11_Witness == HeaderSent /\ n_ticks = Two8 + 1 /\ FrameSequence = 0

\* what reset_buffer leaves behind, but for the sequence
WindowFresh ==
  /\ \A s \in Slots : hash_table[s].state = ENTRY_EMPTY
  /\ buffer_header.n_adv_raw = 0
  /\ buffer_header.n_mac = 0
  /\ hash_entries = 0
  /\ buffer_header.header = [i \in 1 .. UART_HEADER_LENGTH |-> UART_HEADER_MAGIC]

\* C12: when a drain is about to set buffer_active back to true, every
\* slot is ENTRY_EMPTY, n_adv_raw, n_mac and hash_entries are 0 and the
\* sync pattern is 0x55 x4; and in a window that follows a drain, the
\* record of an address reported once in that window has n_adv = 1,
\* whatever was recorded before the drain.
C12_WindowsIndependent ==
  /\ work_pc = "activate" => WindowFresh
  /\ \A m \in MACS : \A s \in Slots :
       (n_ticks >= 1 /\ buffer_active /\ cb_pc = "idle" /\ win_seen[m] = 1 /\ Holds(s, m))
         => hash_table[s].device.n_adv = 1

\* ------------------------------------------------------------------------
\* The frame as a function of the window content, and its decoding
\* ------------------------------------------------------------------------

\* the bytes the loop of send_buffer writes from slot i on
RECURSIVE RecordBytesFrom(_)
RecordBytesFrom(i) ==
  IF i >= HASH_SIZE THEN <<>> ELSE EntryBytes(hash_table[i]) \o RecordBytesFrom(i + 1)

\* the bytes send_buffer writes for the table and header as they are now
SendBufferBytes == HeaderBytes(buffer_header) \o RecordBytesFrom(0)

\* the records of the occupied slots, in slot order, from slot i on
RECURSIVE OccupiedFrom(_)
OccupiedFrom(i) ==
  IF i >= HASH_SIZE THEN <<>>
  ELSE (IF hash_table[i].state = ENTRY_OCCUPIED THEN <<hash_table[i].device>> ELSE <<>>)
         \o OccupiedFrom(i + 1)

\* a byte read as int8_t
DecodeS8(b) == IF b >= 128 THEN b - Two8 ELSE b

\* a little-endian uint16_t
DecodeU16(lo, hi) == lo + Two8 * hi

\* the receiver's reading of the 9-byte header
DecodeHeader(b) ==
  [header |-> SubSeq(b, 1, 4), sequence |-> b[5],
   n_adv_raw |-> DecodeU16(b[6], b[7]), n_mac |-> DecodeU16(b[8], b[9])]

\* the receiver's reading of one 42-byte record
DecodeDevice(r) ==
  [addr |-> SubSeq(r, 1, 6), addr_type |-> r[7], adv_type |-> r[8],
   rssi |-> DecodeS8(r[9]), data_len |-> r[10], data |-> SubSeq(r, 11, 41),
   n_adv |-> r[42]]

\* the receiver's reading of the records that follow the header
DecodeRecords(b) ==
  [k \in 1 .. ((Len(b) - 9) \div 42) |->
     DecodeDevice(SubSeq(b, 9 + (k - 1) * 42 + 1, 9 + k * 42))]

\* C13: decoding the bytes send_buffer produces for a window content, with
\* the layout 4 sync bytes, sequence, n_adv_raw (2 bytes), n_mac (2 bytes),
\* then 42-byte records (addr, addr_type, adv_type, rssi, data_len, 31
\* data bytes, n_adv), gives back the header and the record of every
\* occupied slot, one decoded record per occupied slot and nothing else;
\* and these are the bytes a drain has written when send_buffer returns.
C13_RoundTrip ==
  /\ Len(SendBufferBytes) = 9 + 42 * NumOccupied
  /\ DecodeHeader(SendBufferBytes) = buffer_header
  /\ DecodeRecords(SendBufferBytes) = OccupiedFrom(0)
  /\ work_pc = "reset" => uart = SendBufferBytes

\* A frame of a full table has been written, one of its records with a
\* negative rssi and a short payload, another with a 31-byte payload.
C13_Witness ==
  /\ work_pc = "reset"
  /\ NumOccupied = HASH_SIZE
  /\ Len(uart) = 9 + 42 * HASH_SIZE
  /\ \E j, k \in 1 .. HASH_SIZE :
       /\ DecodeRecords(uart)[j].rssi < 0
       /\ DecodeRecords(uart)[j].data_len = 3
       /\ DecodeRecords(uart)[k].data_len = DATA_SIZE
       /\ DecodeRecords(uart)[k].adv_type = 3

\* reset_buffer has not run / has run in the drain in progress: msg_sequence
\* is 1 after main() and grows by one in every reset_buffer.
ResetPending == msg_sequence = n_ticks % Two8

ResetDone == msg_sequence = (n_ticks + 1) % Two8

\* C14: in every drain buffer_active is cleared before the first byte is
\* written; the frame is written before reset_buffer runs; buffer_active
\* becomes true only after reset_buffer; and buffer_active is false from
\* the start of send_buffer to the end of reset_buffer.
C14_DrainOrder ==
  /\ buffer_active <=> work_pc = "idle"
  /\ work_pc = "send_hdr" => uart = <<>>
  /\ uart # <<>> => ~buffer_active
  /\ work_pc \in {"send_hdr", "send_rec", "reset"} => ResetPending
  /\ work_pc = "reset" => (HeaderSent /\ (Len(uart) - HEADER_BYTES) % DEVICE_BYTES = 0)
  /\ work_pc \in {"activate", "idle"} => ResetDone
  /\ buffer_header.sequence = (msg_sequence + Two8 - 1) % Two8

\* A drain has sent a record and reset the table, and has not yet set
\* buffer_active.
C14_Witness ==
  /\ work_pc = "activate"
  /\ ~buffer_active
  /\ Len(uart) > HEADER_BYTES
  /\ ResetDone

\* C15: with the timer expiring again and again and the sink returning,
\* every drain leads back to buffer_active = true, and drains occur
\* infinitely often: the cycle has no terminal state.
C15_CycleForever ==
  /\ (~buffer_active) ~> buffer_active
  /\ []<>(work_pc = "send_hdr")
  /\ []<>(work_pc = "idle" /\ buffer_active)

\* 255 drains after start-up a window is open again.
C15_Witness == buffer_active /\ work_pc = "idle" /\ msg_sequence = 0

\* slots inspected before the one at index, in the call in progress
ProbeDist == AndHashMask(index + HASH_SIZE - original_index)

\* the do-while goes round once more in this step
FindContinues == CaptureStep /\ cb_pc = "probe" /\ cb_pc' = "probe"

\* C16: a call of find_or_add_device starts at the home slot hash_mac(addr);
\* every further iteration inspects the next slot modulo the capacity, one
\* further from home than the last and never the home slot again, so no
\* slot is inspected twice and at most capacity slots are inspected; and a
\* NULL returned over a table full of other addresses comes after exactly
\* capacity inspections.
C16_ProbeBounded ==
  [][ /\ (cb_pc = "count" /\ cb_pc' = "probe") =>
           (index' = hash_mac(cb_addr) /\ original_index' = index')
      /\ cb_pc = "probe" => (index \in Slots /\ ProbeDist < HASH_SIZE)
      /\ FindContinues =>
           /\ original_index' = original_index
           /\ index' = AndHashMask(original_index + ProbeDist + 1)
           /\ ProbeDist' = ProbeDist + 1
           /\ index' # original_index
      /\ (CaptureStep /\ cb_pc = "probe" /\ FullOfOthers(cb_addr)) =>
           /\ ~FindReturnsRecord
           /\ FindReturnsNull <=> ProbeDist = HASH_SIZE - 1 ]_vars

\* The probe stands on the last slot of a table full of other addresses,
\* every other slot inspected.
C16_Witness ==
  /\ cb_pc = "probe"
  /\ ProbeDist = HASH_SIZE - 1
  /\ FullOfOthers(cb_addr)

\* ------------------------------------------------------------------------
\* The base-33 polynomial of an address in integers of any size, kept as
\* 16-bit limbs (l0 the lowest; l2 is not truncated)
\* ------------------------------------------------------------------------

\* n * 33 + b
Times33Plus(n, b) ==
  [l0 |-> (n.l0 * 33 + b) % Two16,
   l1 |-> (n.l1 * 33 + (n.l0 * 33 + b) \div Two16) % Two16,
   l2 |-> n.l2 * 33 + (n.l1 * 33 + (n.l0 * 33 + b) \div Two16) \div Two16]

RECURSIVE Poly33(_, _, _)
Poly33(mac, i, n) == IF i > 6 THEN n ELSE Poly33(mac, i + 1, Times33Plus(n, mac[i]))

Polynomial(mac) == Poly33(mac, 1, [l0 |-> 0, l1 |-> 0, l2 |-> 0])

\* n mod m
BigMod(n, m) == ((((n.l2 % m) * (Two16 % m) + n.l1) % m) * (Two16 % m) + n.l0) % m

\* the 32-bit accumulator of hash_mac before the mask
Accumulator(mac) == HashLoop(mac, 1, U32(0))

\* C17: for every 6-byte address hash_mac returns an index in
\* [0, HASH_SIZE) which is the base-33 polynomial of the six bytes, computed
\* without any wrap, modulo HASH_SIZE: the uint32_t accumulator is that
\* polynomial modulo 2^32, and the mask of a power of two (that of the
\* table here, and 1024 as in main.c) loses nothing more.
C17_HashIsPolynomial ==
  cb_pc = "probe" =>
    /\ index \in 0 .. (HASH_SIZE - 1)
    /\ index = hash_mac(cb_addr)
    /\ index = BigMod(Polynomial(cb_addr), HASH_SIZE)
    /\ Accumulator(cb_addr).lo = Polynomial(cb_addr).l0
    /\ Accumulator(cb_addr).hi = Polynomial(cb_addr).l1
    /\ Accumulator(cb_addr).lo % 1024 = BigMod(Polynomial(cb_addr), 1024)

\* hash_mac has been applied to an address whose polynomial does not fit
\* in 32 bits.
C17_Witness ==
  /\ cb_pc = "probe"
  /\ Polynomial(cb_addr).l2 >= 1
  /\ index = BigMod(Polynomial(cb_addr), HASH_SIZE)

\* the slot the running call of scan_cb works on: the one under the probe
\* until find_or_add_device returns, the one device points into after
TargetSlot == IF cb_pc \in {"probe", "insert"} THEN index ELSE device

\* C18: a scan_cb that obtains a record changes one slot and only that
\* one: each of its steps leaves every slot but the one it works on as it
\* is, the slot it works on is the same from the return of
\* find_or_add_device to the end (and is changed: n_adv moves), a record
\* already in that slot keeps its address and its ENTRY_OCCUPIED tag, and
\* sequence and the sync pattern are untouched.
C18_OneSlotChanged ==
  [][ CaptureStep =>
        /\ \A s \in Slots : s # TargetSlot => hash_table'[s] = hash_table[s]
        /\ hash_table[TargetSlot].state = ENTRY_OCCUPIED =>
             /\ hash_table'[TargetSlot].state = ENTRY_OCCUPIED
             /\ hash_table'[TargetSlot].device.addr = hash_table[TargetSlot].device.addr
        /\ FindReturnsRecord => TargetSlot' = index
        /\ (cb_pc \in {"insert", "fields"}) => TargetSlot' = TargetSlot
        /\ cb_pc = "data" => hash_table'[device] # hash_table[device]
        /\ buffer_header'.sequence = buffer_header.sequence
        /\ buffer_header'.header = buffer_header.header
        /\ msg_sequence' = msg_sequence ]_vars

\* Two records in the table, one of them updated for the second time by
\* the scan_cb that has just returned.
C18_Witness ==
  /\ cb_last = "merged"
  /\ cb_pc = "idle"
  /\ work_pc = "idle"
  /\ NumOccupied >= 2
  /\ \E s \in Slots : hash_table[s].device.n_adv = 2

\* find_or_add_device falls out of the do-while in this step
ProbeExhausted ==
  /\ ~SlotMatches(hash_table[index], cb_addr)
  /\ ~SlotFree(hash_table[index])
  /\ NextIndex(index) = original_index

\* C19: when no scan_cb overlaps a drain, hash_entries and n_mac are equal
\* and count the ENTRY_OCCUPIED slots (the slot being inserted, lines
\* 90-94, is counted once line 94 is passed); so when find_or_add_device
\* stands on a slot that is not occupied neither "Buffer lleno" test is
\* true, and NULL is returned only at the end of the do-while, over a
\* table full of other addresses.
C19_CountersAgree ==
  /\ [](hash_entries = buffer_header.n_mac)
  /\ [](cb_pc # "insert" => buffer_header.n_mac = NumOccupied)
  /\ [](cb_pc = "insert" => buffer_header.n_mac + 1 = NumOccupied)
  /\ []((cb_pc = "probe" /\ SlotFree(hash_table[index]))
          => ~LimitReached(buffer_header.n_mac, hash_entries))
  /\ [][FindReturnsNull => (ProbeExhausted /\ FullOfOthers(cb_addr))]_vars

\* find_or_add_device stands on the last slot that is not occupied, every
\* other slot taken and counted.
C19_Witness ==
  /\ cb_pc = "probe"
  /\ SlotFree(hash_table[index])
  /\ NumOccupied = MAX_DEVICES - 1
  /\ hash_entries = NumOccupied
  /\ buffer_header.n_mac = NumOccupied

\* the n_adv byte of the k-th record on the wire
FrameNAdv(k) == FrameRecord(k)[DEVICE_BYTES]

\* C20: every record written to the sink carries n_adv >= 1, whatever the
\* interleaving of scan_cb with the drain.
C20_NoZeroCount == HeaderSent => \A k \in 1 .. FrameRecords : FrameNAdv(k) >= 1

====
